---- MODULE Spec2Model ----
(***************************************************************************)
(* A model of ThreatFeedChecker (src/src/types.ts): the cursor-paginated   *)
(* threat feed fetch, the page-number-paginated inventory fetches, the     *)
(* flattening of workspace -> project -> library, the exact-match join,    *)
(* the two report texts (generateSummary, generateMaliciousPackagesTable)  *)
(* and the orchestration of ThreatFeedChecker.run with its exit status.    *)
(*                                                                         *)
(* The two upstream APIs are the environment.  A "world" (feed, wsPages,   *)
(* projRes, libRes) fixes what each endpoint answers to a request; whether *)
(* a request fails (network error, timeout, non-2xx) is chosen per request.*)
(***************************************************************************)
EXTENDS Integers, Sequences, FiniteSets, TLC

VARIABLES
    feed,            \* threat feed served by threats.phylum.io: sequence of pages
    wsPages,         \* pages of the workspace listing held by the Veracode server
    projRes,         \* workspace id -> project listing resource
    libRes,          \* project id   -> library listing resource
    config,          \* the action inputs and the environment variables
    pc,              \* position of the run
    requests,        \* every HTTP request issued so far, in order
    cursor,          \* fetchAllThreatPackages: let cursor
    allPackages,     \* fetchAllThreatPackages: const allPackages
    threatPackages,  \* run: const threatPackages
    workspaces,      \* fetchAllLibraries: const workspaces
    wsIdx,           \* fetchAllLibraries: position of `for (const workspace of workspaces)`
    page,            \* fetchProjectsForWorkspace / fetchLibrariesForProject: let page
    allProjects,     \* fetchProjectsForWorkspace: const allProjects
    projects,        \* fetchAllLibraries: const projects
    projIdx,         \* fetchAllLibraries: position of `for (const project of projects)`
    libsAcc,         \* fetchLibrariesForProject: const allLibraries
    libraries,       \* fetchAllLibraries: const libraries
    allLibraries,    \* fetchAllLibraries: const allLibraries (the inventory triples)
    matches,         \* run: const matches
    summary,         \* run: const summary, the lines of the text
    maliciousPackagesTable,  \* run: const maliciousPackagesTable, its lines
    files,           \* files written by fs.writeFileSync, in order
    outputs,         \* core.setOutput calls, in order
    thrown,          \* the stage whose error reached the catch of run
    exitCode         \* argument of process.exit, NotExited before

vars == <<feed, wsPages, projRes, libRes, config, pc, requests, cursor, allPackages,
          threatPackages, workspaces, wsIdx, page, allProjects, projects,
          projIdx, libsAcc, libraries, allLibraries, matches, summary,
          maliciousPackagesTable, files, outputs, thrown, exitCode>>

world == <<feed, wsPages, projRes, libRes, config>>

reports == <<summary, maliciousPackagesTable>>

----------------------------------------------------------------------------
(* Bounds of the model *)

MaxFeedPages == 3     \* pages of a threat feed world
MaxResPages  == 3     \* pages of a project / library listing world
MaxPageReq   == 4     \* page-number requests one fetcher may issue in the model
MaxRunPages  == 2     \* pages of the threat feed of a whole-run world
MaxThreats   == 2     \* threat entries given to the match engine alone
MaxInventory == 2     \* inventory triples given to the match engine alone
MaxRows      == 3     \* threat entries given to the table renderer alone
MaxTick      == 1     \* readings of the clock: 0..MaxTick milliseconds after the start

----------------------------------------------------------------------------
(* JavaScript values *)

Absent    == -1       \* undefined: a field the response does not carry
EmptyStr  == -2       \* the empty string ""
Echo      == -3       \* world marker: the server reports the requested page number
BadDate   == -1       \* NaN: getTime() of a `created` that `new Date` cannot parse
NotExited == -1

\* if (response.data.cursor): undefined, 0 and "" are falsy
Truthy(c) == c # Absent /\ c # EmptyStr /\ c # 0

\* x || 0
OrZero(x) == IF Truthy(x) THEN x ELSE 0

RECURSIVE Flatten(_)
Flatten(ss) == IF ss = <<>> THEN <<>> ELSE Head(ss) \o Flatten(Tail(ss))

SeqsUpTo(S, n) == UNION {[1..k -> S] : k \in 0..n}

----------------------------------------------------------------------------
(* Data *)

Names      == {"left-pad", "Left-Pad"}
Versions   == {"1.0", "1.0.0"}
Ecosystems == {"npm", "pypi"}

\* the `created` strings of the feed entries: two spellings of one instant,
\* a later one, one with a five-digit year, and one that is no date
CreatedJan       == "2024-01-15T10:00:00Z"
CreatedJanOffset == "2024-01-15T12:00:00+02:00"
CreatedMar       == "2024-03-01T00:00:00Z"
CreatedFar       == "+010000-01-01T00:00:00Z"
CreatedBad       == "not-a-date"

\* PhylumThreatPackage (the fields the program reads); indicators is given
\* by its keys, in insertion order
ThreatPkg(n, v, e, c) ==
    [name |-> n, version |-> v, ecosystem |-> e, created |-> c,
     indicators |-> IF e = "pypi" THEN <<"malware">>
                    ELSE <<"malware", "typosquat">>]

\* VeracodeWorkspace, VeracodeProject, VeracodeLibrary
W1 == [id |-> "w1", name |-> "ws-one"]
W2 == [id |-> "w2", name |-> "ws-two"]
PA == [id |-> "pa", name |-> "proj-a", workspaceId |-> "w1"]
PB == [id |-> "pb", name |-> "proj-b", workspaceId |-> "w1"]
PC == [id |-> "pc", name |-> "proj-c", workspaceId |-> "w2"]
Library(i, n, v) ==
    [id |-> i, name |-> n, version |-> v, ecosystem |-> "npm",
     license |-> "MIT", vulnerabilities |-> IF i = "l1" THEN <<"CVE">> ELSE <<>>]

WorkspaceIds == {"w1", "w2"}
ProjectIds   == {"pa", "pb", "pc"}

\* three feed entries: two that differ in version only, one with a bad date
T1 == ThreatPkg("left-pad", "1.0", "npm", CreatedMar)
T2 == ThreatPkg("left-pad", "1.0.0", "npm", CreatedJan)
T3 == ThreatPkg("Left-Pad", "1.0", "pypi", CreatedBad)
L1 == Library("l1", "left-pad", "1.0")
L2 == Library("l2", "Left-Pad", "1.0.0")

----------------------------------------------------------------------------
(* The threat feed endpoint.  Page i of a feed carries a list of packages, *)
(* a has_next flag and a cursor; a truthy cursor of page i is the token i, *)
(* and a request with token i is answered with page i+1.                   *)

FeedPage(pkgs, c, hn) == [packages |-> pkgs, cursor |-> c, has_next |-> hn]

\* the page the server answers a request carrying cursor c with
\* (c is not truthy: the URL has no cursor parameter, the first page)
FeedResponse(f, c) == IF Truthy(c) THEN f[c + 1] ELSE f[1]

\* a well-formed finite feed: a truthy cursor names the next page, and the
\* last page has none
IsFeed(f) ==
    /\ Len(f) >= 1
    /\ \A i \in 1..Len(f) : Truthy(f[i].cursor) => f[i].cursor = i
    /\ ~Truthy(f[Len(f)].cursor)

\* the request record kept in `requests`
Request(api, ws, proj, arg, ok) ==
    [api |-> api, ws |-> ws, proj |-> proj, arg |-> arg, ok |-> ok]

\* a bug: the catch reports success
RunCatchExitZero(stage) ==
    /\ thrown' = stage
    /\ exitCode' = 0
    /\ pc' = "done"

\* the catch of ThreatFeedChecker.run: core.setFailed, process.exit(1)
RunCatch(stage) ==
    /\ thrown' = stage
    /\ exitCode' = 1
    /\ pc' = "done"

----------------------------------------------------------------------------
(* getRequiredInput, validateInputs and the top-level run().  A            *)
(* configuration gives the action inputs (core.getInput yields "" for an   *)
(* input that is not set) and the environment variables (a variable that   *)
(* is not set is not in the domain of env).                                *)

InputNames == << "phylum_api_token", "veracode_api_id", "veracode_api_key" >>
EnvVarNames == << "PHYLUM_API_TOKEN", "VERACODE_API_ID", "VERACODE_API_KEY" >>

\* a bug: a parameter found nowhere is taken as the empty string
IsMissingNever(cfg, k) == FALSE

\* getRequiredInput(InputNames[k], EnvVarNames[k]) throws: the input is
\* falsy and the environment variable is undefined or empty
IsMissing(cfg, k) ==
    /\ cfg.input[InputNames[k]] = ""
    /\ \/ EnvVarNames[k] \notin DOMAIN cfg.env
       \/ cfg.env[EnvVarNames[k]] = ""

\* validateInputs(): the first getRequiredInput that throws ends it; the
\* catch of the top-level run() calls core.setFailed and process.exit(1);
\* otherwise the checker is constructed and checker.run() starts
ValidateInputs ==
    /\ pc = "validate"
    /\ IF \E k \in 1..3 : IsMissing(config, k)
          THEN /\ thrown' = "validation"
               /\ exitCode' = 1
               /\ pc' = "done"
          ELSE /\ pc' = "threat"
               /\ UNCHANGED <<thrown, exitCode>>
    /\ UNCHANGED <<world, reports, requests, cursor, allPackages,
                   threatPackages, workspaces, wsIdx, page, allProjects,
                   projects, projIdx, libsAcc, libraries, allLibraries,
                   matches, files, outputs>>

----------------------------------------------------------------------------
(* fetchAllThreatPackages: one iteration of `while (hasMore)` *)

\* a bug: the cursor is never sent
ThreatUrlCursorOmitted(c) == Absent

\* the URL of the request: the cursor parameter is sent only for a truthy cursor
ThreatUrlCursor(c) == IF Truthy(c) THEN c ELSE Absent

\* a bug: unshift instead of push
PushPackagesFront(acc, resp) == resp.packages \o acc

\* allPackages.push(...response.data.packages)
PushPackages(acc, resp) == acc \o resp.packages

\* a bug: only a missing cursor ends the loop (cursor !== undefined)
ThreatHasMoreDefined(resp) == resp.cursor # Absent

\* if (response.data.cursor) { cursor = ... } else { hasMore = false }
ThreatHasMore(resp) == Truthy(resp.cursor)

ThreatPageOk ==
    /\ pc = "threat"
    /\ LET resp == FeedResponse(feed, cursor)
           acc  == PushPackages(allPackages, resp)
       IN  /\ requests' = Append(requests,
                  Request("threat", "", "", ThreatUrlCursor(cursor), TRUE))
           /\ allPackages' = acc
           /\ IF ThreatHasMore(resp)
                 THEN /\ cursor' = resp.cursor
                      /\ pc' = "threat"
                      /\ UNCHANGED threatPackages
                 ELSE /\ cursor' = cursor
                      /\ pc' = "workspaces"
                      /\ threatPackages' = acc
    /\ UNCHANGED <<world, reports, workspaces, wsIdx, page, allProjects, projects,
                   projIdx, libsAcc, libraries, allLibraries, matches, files,
                   outputs, thrown, exitCode>>

\* a bug: the inventory fetchers' policy (stop and return what was
\* accumulated) applied to the threat feed
ThreatPageFailPartial ==
    /\ pc = "threat"
    /\ requests' = Append(requests,
           Request("threat", "", "", ThreatUrlCursor(cursor), FALSE))
    /\ threatPackages' = allPackages
    /\ pc' = "workspaces"
    /\ UNCHANGED <<world, reports, cursor, allPackages, workspaces, wsIdx, page,
                   allProjects, projects, projIdx, libsAcc, libraries,
                   allLibraries, matches, files, outputs, thrown, exitCode>>

\* axios.get rejects: the catch logs and rethrows, run's catch exits with 1
ThreatPageFail ==
    /\ pc = "threat"
    /\ requests' = Append(requests,
           Request("threat", "", "", ThreatUrlCursor(cursor), FALSE))
    /\ RunCatch("threat-feed")
    /\ UNCHANGED <<world, reports, cursor, allPackages, threatPackages, workspaces,
                   wsIdx, page, allProjects, projects, projIdx, libsAcc,
                   libraries, allLibraries, matches, files, outputs>>

----------------------------------------------------------------------------
(* The Veracode endpoints.  A listing resource holds its pages of items,   *)
(* the totalPages and the page number its responses report (Echo: the      *)
(* requested one) and whether its responses carry an _embedded list.       *)

Resource(pgs, tp, num, emb) ==
    [pages |-> pgs, totalPages |-> tp, number |-> num, embedded |-> emb]

\* the response to `?page=p`: a page past the end of the listing is empty
PageResponse(res, p) ==
    [items      |-> IF p + 1 <= Len(res.pages) THEN res.pages[p + 1] ELSE <<>>,
     embedded   |-> res.embedded,
     totalPages |-> res.totalPages,
     number     |-> IF res.number = Echo THEN p ELSE res.number]

\* the response to GET /srcclr/v3/workspaces, which carries no page
\* parameter: the server answers with its first page
WorkspacesResponse(pgs) == [workspaces |-> pgs[1], totalPages |-> Len(pgs)]

----------------------------------------------------------------------------
(* fetchAllWorkspaces: a single request *)

FetchAllWorkspacesOk ==
    /\ pc = "workspaces"
    /\ requests' = Append(requests, Request("workspaces", "", "", Absent, TRUE))
    /\ workspaces' = WorkspacesResponse(wsPages).workspaces
    /\ wsIdx' = 1
    /\ pc' = "forWorkspace"
    /\ UNCHANGED <<world, reports, cursor, allPackages, threatPackages, page,
                   allProjects, projects, projIdx, libsAcc, libraries,
                   allLibraries, matches, files, outputs, thrown, exitCode>>

\* a bug: an unreachable workspace listing degrades to an empty inventory
FetchAllWorkspacesFailDegrades ==
    /\ pc = "workspaces"
    /\ requests' = Append(requests, Request("workspaces", "", "", Absent, FALSE))
    /\ workspaces' = <<>>
    /\ wsIdx' = 1
    /\ pc' = "forWorkspace"
    /\ UNCHANGED <<world, reports, cursor, allPackages, threatPackages, page,
                   allProjects, projects, projIdx, libsAcc, libraries,
                   allLibraries, matches, files, outputs, thrown, exitCode>>

\* the catch logs and rethrows; fetchAllLibraries does not catch
FetchAllWorkspacesFail ==
    /\ pc = "workspaces"
    /\ requests' = Append(requests, Request("workspaces", "", "", Absent, FALSE))
    /\ RunCatch("workspaces")
    /\ UNCHANGED <<world, reports, cursor, allPackages, threatPackages, workspaces,
                   wsIdx, page, allProjects, projects, projIdx, libsAcc,
                   libraries, allLibraries, matches, files, outputs>>

----------------------------------------------------------------------------
(* fetchProjectsForWorkspace and fetchLibrariesForProject: the two loops   *)
(* have the same body; one iteration of `while (hasMore)` each             *)

\* if (response.data._embedded?.projects) allProjects.push(...)
PushItems(acc, resp) == IF resp.embedded THEN acc \o resp.items ELSE acc

\* a bug: currentPage < totalPages
MorePagesOffByOne(resp) == OrZero(resp.number) < OrZero(resp.totalPages)

\* totalPages = page?.totalPages || 0; currentPage = page?.number || 0;
\* currentPage < totalPages - 1
MorePages(resp) == OrZero(resp.number) < OrZero(resp.totalPages) - 1

\* a bug: every failure discards what was accumulated
PageErrorResultEmpty(p, acc) == <<>>

\* catch: if (page === 0) return []; hasMore = false  (then: return acc)
PageErrorResult(p, acc) == IF p = 0 THEN <<>> ELSE acc

\* a bug: without a page count the fetcher goes on until a page comes back
\* empty
ProjectsPageOkUntilEmpty ==
    /\ pc = "projects"
    /\ page < MaxPageReq
    /\ LET ws   == workspaces[wsIdx]
           resp == PageResponse(projRes[ws.id], page)
           acc  == PushItems(allProjects, resp)
       IN  /\ requests' = Append(requests,
                  Request("projects", ws.id, "", page, TRUE))
           /\ allProjects' = acc
           /\ IF \/ MorePages(resp)
                 \/ OrZero(resp.totalPages) = 0 /\ resp.items # <<>>
                 THEN /\ page' = page + 1
                      /\ pc' = "projects"
                      /\ UNCHANGED <<projects, projIdx>>
                 ELSE /\ page' = page
                      /\ projects' = acc
                      /\ projIdx' = 1
                      /\ pc' = "forProject"
    /\ UNCHANGED <<world, reports, cursor, allPackages, threatPackages, workspaces,
                   wsIdx, libsAcc, libraries, allLibraries, matches, files,
                   outputs, thrown, exitCode>>

ProjectsPageOk ==
    /\ pc = "projects"
    /\ page < MaxPageReq
    /\ LET ws   == workspaces[wsIdx]
           resp == PageResponse(projRes[ws.id], page)
           acc  == PushItems(allProjects, resp)
       IN  /\ requests' = Append(requests,
                  Request("projects", ws.id, "", page, TRUE))
           /\ allProjects' = acc
           /\ IF MorePages(resp)
                 THEN /\ page' = page + 1
                      /\ pc' = "projects"
                      /\ UNCHANGED <<projects, projIdx>>
                 ELSE /\ page' = page
                      /\ projects' = acc
                      /\ projIdx' = 1
                      /\ pc' = "forProject"
    /\ UNCHANGED <<world, reports, cursor, allPackages, threatPackages, workspaces,
                   wsIdx, libsAcc, libraries, allLibraries, matches, files,
                   outputs, thrown, exitCode>>

\* a bug: the catch rethrows, as the threat feed's does
ProjectsPageFailThrows ==
    /\ pc = "projects"
    /\ page < MaxPageReq
    /\ requests' = Append(requests,
           Request("projects", workspaces[wsIdx].id, "", page, FALSE))
    /\ RunCatch("projects")
    /\ UNCHANGED <<world, reports, cursor, allPackages, threatPackages, workspaces,
                   wsIdx, page, allProjects, projects, projIdx, libsAcc,
                   libraries, allLibraries, matches, files, outputs>>

ProjectsPageFail ==
    /\ pc = "projects"
    /\ page < MaxPageReq
    /\ requests' = Append(requests,
           Request("projects", workspaces[wsIdx].id, "", page, FALSE))
    /\ projects' = PageErrorResult(page, allProjects)
    /\ projIdx' = 1
    /\ pc' = "forProject"
    /\ UNCHANGED <<world, reports, cursor, allPackages, threatPackages, workspaces,
                   wsIdx, page, allProjects, libsAcc, libraries, allLibraries,
                   matches, files, outputs, thrown, exitCode>>

LibrariesPageOk ==
    /\ pc = "libraries"
    /\ page < MaxPageReq
    /\ LET ws   == workspaces[wsIdx]
           proj == projects[projIdx]
           resp == PageResponse(libRes[proj.id], page)
           acc  == PushItems(libsAcc, resp)
       IN  /\ requests' = Append(requests,
                  Request("libraries", ws.id, proj.id, page, TRUE))
           /\ libsAcc' = acc
           /\ IF MorePages(resp)
                 THEN /\ page' = page + 1
                      /\ pc' = "libraries"
                      /\ UNCHANGED libraries
                 ELSE /\ page' = page
                      /\ libraries' = acc
                      /\ pc' = "pushLibraries"
    /\ UNCHANGED <<world, reports, cursor, allPackages, threatPackages, workspaces,
                   wsIdx, allProjects, projects, projIdx, allLibraries,
                   matches, files, outputs, thrown, exitCode>>

\* a bug: the catch rethrows, as the threat feed's does
LibrariesPageFailThrows ==
    /\ pc = "libraries"
    /\ page < MaxPageReq
    /\ requests' = Append(requests,
           Request("libraries", workspaces[wsIdx].id, projects[projIdx].id,
                   page, FALSE))
    /\ RunCatch("libraries")
    /\ UNCHANGED <<world, reports, cursor, allPackages, threatPackages, workspaces,
                   wsIdx, page, allProjects, projects, projIdx, libsAcc,
                   libraries, allLibraries, matches, files, outputs>>

LibrariesPageFail ==
    /\ pc = "libraries"
    /\ page < MaxPageReq
    /\ requests' = Append(requests,
           Request("libraries", workspaces[wsIdx].id, projects[projIdx].id,
                   page, FALSE))
    /\ libraries' = PageErrorResult(page, libsAcc)
    /\ pc' = "pushLibraries"
    /\ UNCHANGED <<world, reports, cursor, allPackages, threatPackages, workspaces,
                   wsIdx, page, allProjects, projects, projIdx, libsAcc,
                   allLibraries, matches, files, outputs, thrown, exitCode>>

----------------------------------------------------------------------------
(* fetchAllLibraries: the nested loops over workspaces and projects *)

\* allLibraries.push({ library, project, workspace })
Triple(l, p, w) == [library |-> l, project |-> p, workspace |-> w]

\* for (const workspace of workspaces): call fetchProjectsForWorkspace, or
\* leave the loop and return allLibraries
ForWorkspace ==
    /\ pc = "forWorkspace"
    /\ IF wsIdx <= Len(workspaces)
          THEN /\ page' = 0
               /\ allProjects' = <<>>
               /\ pc' = "projects"
          ELSE /\ pc' = "match"
               /\ UNCHANGED <<page, allProjects>>
    /\ UNCHANGED <<world, reports, requests, cursor, allPackages, threatPackages,
                   workspaces, wsIdx, projects, projIdx, libsAcc, libraries,
                   allLibraries, matches, files, outputs, thrown, exitCode>>

\* for (const project of projects): call fetchLibrariesForProject, or go on
\* with the next workspace
ForProject ==
    /\ pc = "forProject"
    /\ IF projIdx <= Len(projects)
          THEN /\ page' = 0
               /\ libsAcc' = <<>>
               /\ pc' = "libraries"
               /\ UNCHANGED wsIdx
          ELSE /\ wsIdx' = wsIdx + 1
               /\ pc' = "forWorkspace"
               /\ UNCHANGED <<page, libsAcc>>
    /\ UNCHANGED <<world, reports, requests, cursor, allPackages, threatPackages,
                   workspaces, allProjects, projects, projIdx, libraries,
                   allLibraries, matches, files, outputs, thrown, exitCode>>

\* a bug: the triples of a project are put in front of the inventory
PushLibrariesFront ==
    /\ pc = "pushLibraries"
    /\ allLibraries' =
           [i \in 1..Len(libraries) |->
               Triple(libraries[i], projects[projIdx], workspaces[wsIdx])]
           \o allLibraries
    /\ projIdx' = projIdx + 1
    /\ pc' = "forProject"
    /\ UNCHANGED <<world, reports, requests, cursor, allPackages, threatPackages,
                   workspaces, wsIdx, page, allProjects, projects, libsAcc,
                   libraries, matches, files, outputs, thrown, exitCode>>

\* for (const library of libraries) allLibraries.push(...)
PushLibraries ==
    /\ pc = "pushLibraries"
    /\ allLibraries' = allLibraries \o
           [i \in 1..Len(libraries) |->
               Triple(libraries[i], projects[projIdx], workspaces[wsIdx])]
    /\ projIdx' = projIdx + 1
    /\ pc' = "forProject"
    /\ UNCHANGED <<world, reports, requests, cursor, allPackages, threatPackages,
                   workspaces, wsIdx, page, allProjects, projects, libsAcc,
                   libraries, matches, files, outputs, thrown, exitCode>>

----------------------------------------------------------------------------
(* findVulnerableMatches: the nested loops, threats outside, inventory     *)
(* inside                                                                  *)

\* a bug: the version comparison is dropped
IsMatchNameOnly(t, l) == t.name = l.name

\* threatPackage.name === library.name && threatPackage.version === library.version
IsMatch(t, l) == t.name = l.name /\ t.version = l.version

VulnerableMatch(t, tr) ==
    [threatPackage |-> t, library |-> tr.library, project |-> tr.project,
     workspace |-> tr.workspace]

\* a bug: the names are compared without regard to case
RECURSIVE InventoryLoopIgnoreCase(_, _, _, _)
InventoryLoopIgnoreCase(t, inv, j, acc) ==
    LET lower(s) == IF s = "Left-Pad" THEN "left-pad" ELSE s
    IN  IF j > Len(inv) THEN acc
        ELSE InventoryLoopIgnoreCase(t, inv, j + 1,
                 IF /\ lower(t.name) = lower(inv[j].library.name)
                    /\ t.version = inv[j].library.version
                    THEN Append(acc, VulnerableMatch(t, inv[j]))
                    ELSE acc)

RECURSIVE InventoryLoop(_, _, _, _)
InventoryLoop(t, inv, j, acc) ==
    IF j > Len(inv) THEN acc
    ELSE InventoryLoop(t, inv, j + 1,
             IF IsMatch(t, inv[j].library)
                THEN Append(acc, VulnerableMatch(t, inv[j]))
                ELSE acc)

\* a bug: the matches of a threat entry are put in front of those of the
\* entries before it
RECURSIVE ThreatLoopFront(_, _, _, _)
ThreatLoopFront(ts, inv, i, acc) ==
    IF i > Len(ts) THEN acc
    ELSE ThreatLoopFront(ts, inv, i + 1, InventoryLoop(ts[i], inv, 1, <<>>) \o acc)

RECURSIVE ThreatLoop(_, _, _, _)
ThreatLoop(ts, inv, i, acc) ==
    IF i > Len(ts) THEN acc
    ELSE ThreatLoop(ts, inv, i + 1, InventoryLoop(ts[i], inv, 1, acc))

\* a bug: a match also needs the same ecosystem
findVulnerableMatchesSameEcosystem(ts, inv) ==
    SelectSeq(ThreatLoop(ts, inv, 1, <<>>),
              LAMBDA m : m.threatPackage.ecosystem = m.library.ecosystem)

findVulnerableMatches(ts, inv) == ThreatLoop(ts, inv, 1, <<>>)

----------------------------------------------------------------------------
(* JavaScript dates and strings, on the values of the model *)

\* new Date(s).getTime(), in hours since the epoch; NaN for an invalid date
GetTime(s) ==
    CASE s = CreatedJan       -> 473698
      [] s = CreatedJanOffset -> 473698
      [] s = CreatedMar       -> 474792
      [] s = CreatedFar       -> 70389528
      [] OTHER                -> BadDate

\* new Date(s).toISOString().split('T')[0] of a valid date with time value t
ToISODate(t) ==
    CASE t = 473698   -> "2024-01-15"
      [] t = 474792   -> "2024-03-01"
      [] t = 70389528 -> "+010000-01-01"

\* new Date().toISOString() when the clock reads tick t
Now(t) == "2026-11-01T00:00:00.00" \o ToString(t) \o "Z"

\* a bug: no padding at all
PadEndNone(s, n) == s

\* String.prototype.padEnd(n): spaces are added up to length n, a longer
\* string is returned as it is
RECURSIVE PadEnd(_, _)
PadEnd(s, n) == IF Len(s) >= n THEN s ELSE PadEnd(s \o " ", n)

\* '-'.repeat(n)
RECURSIVE Repeat(_, _)
Repeat(s, n) == IF n <= 0 THEN "" ELSE s \o Repeat(s, n - 1)

\* Array.prototype.join
RECURSIVE Join(_, _)
Join(keys, sep) ==
    IF Len(keys) = 0 THEN ""
    ELSE IF Len(keys) = 1 THEN keys[1]
    ELSE keys[1] \o sep \o Join(Tail(keys), sep)

\* x || 'Unknown'
OrUnknown(s) == IF s = "" THEN "Unknown" ELSE s

\* Math.max
Max(a, b) == IF a >= b THEN a ELSE b

----------------------------------------------------------------------------
(* generateSummary: a text is the sequence of its lines, each of which the *)
(* code ends with \n; the emoji that open three of the lines are written   *)
(* as a word in brackets                                                   *)

\* a bug: the blocks are numbered from 0 (index instead of index + 1)
MatchBlockFromZero(match, index) ==
    << ToString(index) \o ". Package: " \o match.threatPackage.name
           \o "@" \o match.threatPackage.version,
       "   Ecosystem: " \o match.threatPackage.ecosystem,
       "   Threat Indicators: " \o Join(match.threatPackage.indicators, ", "),
       "   Workspace: " \o match.workspace.name \o " (" \o match.workspace.id \o ")",
       "   Project: " \o match.project.name \o " (" \o match.project.id \o ")",
       "   Library ID: " \o match.library.id,
       "   Library License: " \o match.library.license,
       "   Threat Created: " \o match.threatPackage.created,
       "   Library Vulnerabilities: " \o ToString(Len(match.library.vulnerabilities)),
       "" >>

\* the body of matches.forEach((match, index) => ...): the ten lines of one
\* match, index counted from 0
MatchBlock(match, index) ==
    << ToString(index + 1) \o ". Package: " \o match.threatPackage.name
           \o "@" \o match.threatPackage.version,
       "   Ecosystem: " \o match.threatPackage.ecosystem,
       "   Threat Indicators: " \o Join(match.threatPackage.indicators, ", "),
       "   Workspace: " \o match.workspace.name \o " (" \o match.workspace.id \o ")",
       "   Project: " \o match.project.name \o " (" \o match.project.id \o ")",
       "   Library ID: " \o match.library.id,
       "   Library License: " \o match.library.license,
       "   Threat Created: " \o match.threatPackage.created,
       "   Library Vulnerabilities: " \o ToString(Len(match.library.vulnerabilities)),
       "" >>

\* matches.forEach
RECURSIVE BlocksLoop(_, _, _)
BlocksLoop(ms, index, acc) ==
    IF index >= Len(ms) THEN acc
    ELSE BlocksLoop(ms, index + 1, acc \o MatchBlock(ms[index + 1], index))

\* a bug: the reading of the clock also goes into the title line
SummaryHeadStamped(n, now) ==
    << "THREAT FEED SECURITY ALERT SUMMARY " \o now,
       "=====================================",
       "",
       "Generated: " \o now,
       "Total vulnerable packages found: " \o ToString(n),
       "" >>

SummaryHead(n, now) ==
    << "THREAT FEED SECURITY ALERT SUMMARY",
       "=====================================",
       "",
       "Generated: " \o now,
       "Total vulnerable packages found: " \o ToString(n),
       "" >>

CleanMessage ==
    << "[check] No vulnerable packages found in your projects.",
       "All packages in your Veracode SCA projects are clean." >>

AttentionIntro ==
    << "[siren] IMMEDIATE ATTENTION REQUIRED!",
       "The following packages in your projects match known threats:",
       "" >>

ActionRequired ==
    << "",
       "[warning]  ACTION REQUIRED:",
       "1. Review the above packages immediately",
       "2. Update or remove vulnerable packages",
       "3. Check for alternative secure packages",
       "4. Run security scans on affected projects" >>

\* a bug: the action-required footer is appended in both branches
generateSummaryFooterAlways(ms, now) ==
    SummaryHead(Len(ms), now) \o
        (IF Len(ms) = 0
            THEN CleanMessage
            ELSE AttentionIntro \o BlocksLoop(ms, 0, <<>>))
        \o ActionRequired

generateSummary(ms, now) ==
    SummaryHead(Len(ms), now) \o
        (IF Len(ms) = 0
            THEN CleanMessage
            ELSE AttentionIntro \o BlocksLoop(ms, 0, <<>>) \o ActionRequired)

----------------------------------------------------------------------------
(* generateMaliciousPackagesTable *)

\* a bug: oldest first
CompareOldestFirst(a, b) ==
    LET ta == GetTime(a.created)
        tb == GetTime(b.created)
    IN  IF ta = BadDate \/ tb = BadDate THEN 0 ELSE ta - tb

\* (a, b) => new Date(b.created).getTime() - new Date(a.created).getTime();
\* a NaN result counts as 0
Compare(a, b) ==
    LET ta == GetTime(a.created)
        tb == GetTime(b.created)
    IN  IF ta = BadDate \/ tb = BadDate THEN 0 ELSE tb - ta

\* Array.prototype.sort is stable: x goes behind every element that does not
\* have to come after it
RECURSIVE Insert(_, _, _)
Insert(sorted, x, k) ==
    IF k = 0 \/ Compare(sorted[k], x) <= 0
       THEN SubSeq(sorted, 1, k) \o <<x>> \o SubSeq(sorted, k + 1, Len(sorted))
       ELSE Insert(sorted, x, k - 1)

RECURSIVE SortLoop(_, _, _)
SortLoop(pkgs, i, acc) ==
    IF i > Len(pkgs) THEN acc
    ELSE SortLoop(pkgs, i + 1, Insert(acc, pkgs[i], Len(acc)))

\* a bug: only the first entry of each (name, version) is kept
SortedPackagesDistinct(pkgs) ==
    LET first(i) == \A j \in 1..(i - 1) :
                        pkgs[j].name # pkgs[i].name \/ pkgs[j].version # pkgs[i].version
        keep[i \in 0..Len(pkgs)] ==
            IF i = 0 THEN <<>>
            ELSE IF first(i) THEN Append(keep[i - 1], pkgs[i]) ELSE keep[i - 1]
    IN  SortLoop(keep[Len(pkgs)], 1, <<>>)

\* [...threatPackages].sort(...)
SortedPackages(pkgs) == SortLoop(pkgs, 1, <<>>)

\* dateAdded, ecosystem, packageName, packageVersion of one entry
RowValues(pkg) ==
    << ToISODate(GetTime(pkg.created)), OrUnknown(pkg.ecosystem),
       OrUnknown(pkg.name), OrUnknown(pkg.version) >>

Headers == << "Date Added", "Ecosystem", "Package Name", "Package Version" >>

\* let maxDateLength = 10 ... let maxVersionLength = 15
InitialWidths == << 10, 9, 12, 15 >>

\* sortedPackages.forEach(pkg => max...Length = Math.max(...))
RECURSIVE WidthLoop(_, _, _)
WidthLoop(pkgs, i, w) ==
    IF i > Len(pkgs) THEN w
    ELSE WidthLoop(pkgs, i + 1,
             [c \in 1..4 |-> Max(w[c], Len(RowValues(pkgs[i])[c]))])

\* `| ${a.padEnd(..)} | ${b.padEnd(..)} | ${c.padEnd(..)} | ${d.padEnd(..)} |`
TableLine(cells, w) ==
    "| " \o PadEnd(cells[1], w[1]) \o " | " \o PadEnd(cells[2], w[2]) \o " | "
         \o PadEnd(cells[3], w[3]) \o " | " \o PadEnd(cells[4], w[4]) \o " |"

Separator(w) ==
    "|" \o Repeat("-", w[1] + 2) \o "|" \o Repeat("-", w[2] + 2) \o "|"
        \o Repeat("-", w[3] + 2) \o "|" \o Repeat("-", w[4] + 2) \o "|"

TableHead(n, now) ==
    << "MALICIOUS PACKAGES FROM THREAT FEED",
       "=====================================",
       "",
       "Generated: " \o now,
       "Total packages in threat feed: " \o ToString(n),
       "" >>

TableNote ==
    << "",
       "Note: This table contains all packages from the Phylum threat feed.",
       "Packages that match your project libraries are highlighted in the summary.txt file." >>

\* new Date(pkg.created).toISOString() throws RangeError on an invalid date;
\* the table loops run only for a non-empty threat list
TableThrows(pkgs) ==
    pkgs # <<>> /\ \E i \in 1..Len(pkgs) : GetTime(pkgs[i].created) = BadDate

\* the text returned when nothing is thrown
generateMaliciousPackagesTable(pkgs, now) ==
    IF Len(pkgs) = 0
       THEN TableHead(0, now) \o << "No packages found in threat feed." >>
       ELSE LET sortedPackages == SortedPackages(pkgs)
                w == WidthLoop(sortedPackages, 1, InitialWidths)
            IN  TableHead(Len(pkgs), now)
                    \o << TableLine(Headers, w), Separator(w) >>
                    \o [k \in 1..Len(sortedPackages) |->
                           TableLine(RowValues(sortedPackages[k]), w)]
                    \o TableNote

----------------------------------------------------------------------------
(* ThreatFeedChecker.run after the two fetches *)

\* const matches = this.findVulnerableMatches(threatPackages, allLibraries)
FindMatches ==
    /\ pc = "match"
    /\ matches' = findVulnerableMatches(threatPackages, allLibraries)
    /\ pc' = "render"
    /\ UNCHANGED <<world, reports, requests, cursor, allPackages,
                   threatPackages, workspaces, wsIdx, page, allProjects,
                   projects, projIdx, libsAcc, libraries, allLibraries, files,
                   outputs, thrown, exitCode>>

\* const summary = this.generateSummary(matches)
RenderSummary ==
    /\ pc = "render"
    /\ \E t \in 0..MaxTick : summary' = generateSummary(matches, Now(t))
    /\ pc' = "renderTable"
    /\ UNCHANGED <<world, maliciousPackagesTable, requests, cursor,
                   allPackages, threatPackages, workspaces, wsIdx, page,
                   allProjects, projects, projIdx, libsAcc, libraries,
                   allLibraries, matches, files, outputs, thrown, exitCode>>

\* the reading of the clock that went into the summary
SummaryTick == CHOOSE t \in 0..MaxTick : summary[4] = "Generated: " \o Now(t)

\* const maliciousPackagesTable = this.generateMaliciousPackagesTable(threatPackages);
\* the clock does not run backwards
RenderTable ==
    /\ pc = "renderTable"
    /\ IF TableThrows(threatPackages)
          THEN /\ RunCatch("render")
               /\ UNCHANGED maliciousPackagesTable
          ELSE /\ \E t \in SummaryTick..MaxTick :
                      maliciousPackagesTable' =
                          generateMaliciousPackagesTable(threatPackages, Now(t))
               /\ pc' = "writeSummary"
               /\ UNCHANGED <<thrown, exitCode>>
    /\ UNCHANGED <<world, summary, requests, cursor, allPackages,
                   threatPackages, workspaces, wsIdx, page, allProjects,
                   projects, projIdx, libsAcc, libraries, allLibraries,
                   matches, files, outputs>>

\* a bug: summary.txt is written as soon as the summary is rendered, before
\* the table is
WriteSummaryBeforeTable ==
    /\ pc = "renderTable"
    /\ files = <<>>
    /\ files' = Append(files, [name |-> "summary.txt", data |-> summary])
    /\ pc' = "renderTable"
    /\ UNCHANGED <<world, reports, requests, cursor, allPackages,
                   threatPackages, workspaces, wsIdx, page, allProjects,
                   projects, projIdx, libsAcc, libraries, allLibraries,
                   matches, outputs, thrown, exitCode>>

\* fs.writeFileSync('summary.txt', summary)
WriteSummary ==
    /\ pc = "writeSummary"
    /\ files' = Append(files, [name |-> "summary.txt", data |-> summary])
    /\ pc' = "writeTable"
    /\ UNCHANGED <<world, reports, requests, cursor, allPackages,
                   threatPackages, workspaces, wsIdx, page, allProjects,
                   projects, projIdx, libsAcc, libraries, allLibraries,
                   matches, outputs, thrown, exitCode>>

\* fs.writeFileSync('new-malicious-packages.txt', maliciousPackagesTable)
WriteTable ==
    /\ pc = "writeTable"
    /\ files' = Append(files, [name |-> "new-malicious-packages.txt",
                               data |-> maliciousPackagesTable])
    /\ pc' = "setOutputs"
    /\ UNCHANGED <<world, reports, requests, cursor, allPackages,
                   threatPackages, workspaces, wsIdx, page, allProjects,
                   projects, projIdx, libsAcc, libraries, allLibraries,
                   matches, outputs, thrown, exitCode>>

\* core.setOutput(...) three times
SetOutputs ==
    /\ pc = "setOutputs"
    /\ outputs' = << <<"vulnerable_packages_count", Len(matches)>>,
                    <<"summary_file", "summary.txt">>,
                    <<"malicious_packages_file", "new-malicious-packages.txt">> >>
    /\ pc' = "exit"
    /\ UNCHANGED <<world, reports, requests, cursor, allPackages, threatPackages,
                   workspaces, wsIdx, page, allProjects, projects, projIdx,
                   libsAcc, libraries, allLibraries, matches, files, thrown,
                   exitCode>>

\* a bug: the two exit codes are swapped
ExitStatusSwapped(n) == IF n > 0 THEN 0 ELSE 1

\* if (matches.length > 0) process.exit(1) else process.exit(0)
ExitStatus(n) == IF n > 0 THEN 1 ELSE 0

Exit ==
    /\ pc = "exit"
    /\ exitCode' = ExitStatus(Len(matches))
    /\ pc' = "done"
    /\ UNCHANGED <<world, reports, requests, cursor, allPackages, threatPackages,
                   workspaces, wsIdx, page, allProjects, projects, projIdx,
                   libsAcc, libraries, allLibraries, matches, files, outputs,
                   thrown>>

----------------------------------------------------------------------------
(* Worlds *)

EmptyFeed     == << FeedPage(<<>>, Absent, FALSE) >>
EmptyResource == Resource(<< <<>> >>, 1, Echo, TRUE)
NoProjects    == [w \in WorkspaceIds |-> EmptyResource]
NoLibraries   == [p \in ProjectIds |-> EmptyResource]

\* the cursor of page i: absent, 0, "" or the token i
CursorForms(i) == {Absent, 0, EmptyStr, i}

\* every feed of n pages over the given package lists and cursor forms
FeedsOfLen(n, pkgLists, forms(_), flags) ==
    {f \in [1..n -> [packages : pkgLists,
                     cursor   : UNION {forms(i) : i \in 1..n},
                     has_next : flags]] :
        /\ \A i \in 1..n : f[i].cursor \in forms(i)
        /\ IsFeed(f)}

\* the feeds of the threat-fetch specification: every cursor form, either
\* has_next flag, empty and non-empty pages
Feeds ==
    UNION {FeedsOfLen(n, {<<>>, <<T1>>, <<T2>>}, CursorForms, BOOLEAN) :
              n \in 1..MaxFeedPages}

\* the listings of the page-fetch specification: any totalPages (absent, 0,
\* too small, too large), any reported page number, with or without _embedded
Resources(items) ==
    {Resource(pgs, tp, num, emb) :
        pgs \in SeqsUpTo(SeqsUpTo(items, 1), MaxResPages),
        tp  \in {Absent} \cup (0..MaxResPages),
        num \in {Echo, Absent, 0, 1},
        emb \in BOOLEAN}

\* a listing that pages the given items as the API documents it
Listing(pgs) == Resource(pgs, Len(pgs), Echo, TRUE)

\* every configuration: each input set or not, each environment variable
\* set, set to the empty string, or not set
Configs ==
    {[input |-> i, env |-> e] :
        i \in [{InputNames[k] : k \in 1..3} -> {"", "from-input"}],
        e \in UNION {[D -> {"", "from-env"}] :
                        D \in SUBSET {EnvVarNames[k] : k \in 1..3}}}

\* the three credentials given as action inputs
FullConfig ==
    [input |-> [n \in {InputNames[k] : k \in 1..3} |-> "from-input"],
     env   |-> <<>>]

\* the configurations of the whole-run worlds: complete, and without the
\* Veracode API key
RunConfigs ==
    {FullConfig,
     [FullConfig EXCEPT !.input["veracode_api_key"] = ""]}

\* the worlds of a whole run
RunForms(i) == {Absent, i}
RunFeeds ==
    UNION {FeedsOfLen(n, {<<>>, <<T1>>, <<T3>>}, RunForms, {FALSE}) : n \in 1..MaxRunPages}
RunWsPages   == { << <<W1, W2>> >>, << <<W1>>, <<W2>> >>, << <<>> >> }
RunProjRes   ==
    {[w \in WorkspaceIds |-> IF w = "w1" THEN r ELSE Listing(<< <<PC>> >>)] :
        r \in {Listing(<< <<PA>>, <<PB>> >>), Listing(<< <<PA, PB>> >>)}}
RunLibRes    ==
    {[p \in ProjectIds |->
        IF p = "pa" THEN r
        ELSE IF p = "pb" THEN Listing(<< <<L2>> >>)
        ELSE Listing(<< <<L1>> >>)] :
        r \in {Listing(<< <<L1>>, <<L2>> >>), Listing(<< <<L2, L1>> >>)}}

----------------------------------------------------------------------------
(* Specifications *)

\* the locals of a run that has not started
InitLocals ==
    /\ requests = <<>>
    /\ cursor = Absent
    /\ allPackages = <<>>
    /\ threatPackages = <<>>
    /\ workspaces = <<>>
    /\ wsIdx = 1
    /\ page = 0
    /\ allProjects = <<>>
    /\ projects = <<>>
    /\ projIdx = 1
    /\ libsAcc = <<>>
    /\ libraries = <<>>
    /\ allLibraries = <<>>
    /\ matches = <<>>
    /\ summary = <<>>
    /\ maliciousPackagesTable = <<>>
    /\ files = <<>>
    /\ outputs = <<>>
    /\ thrown = "none"
    /\ exitCode = NotExited

\* the top-level run() from its first statement, in a small world
Init ==
    /\ feed \in RunFeeds
    /\ wsPages \in RunWsPages
    /\ projRes \in RunProjRes
    /\ libRes \in RunLibRes
    /\ config \in RunConfigs
    /\ pc = "validate"
    /\ InitLocals

Next ==
    \/ ValidateInputs
    \/ ThreatPageOk
    \/ ThreatPageFail
    \/ FetchAllWorkspacesOk
    \/ FetchAllWorkspacesFail
    \/ ForWorkspace
    \/ ProjectsPageOk
    \/ ProjectsPageFail
    \/ ForProject
    \/ LibrariesPageOk
    \/ LibrariesPageFail
    \/ PushLibraries
    \/ FindMatches
    \/ RenderSummary
    \/ RenderTable
    \/ WriteSummary
    \/ WriteTable
    \/ SetOutputs
    \/ Exit

Spec == Init /\ [][Next]_vars

\* fetchAllThreatPackages alone, against every feed
InitThreat ==
    /\ feed \in Feeds
    /\ wsPages = << <<>> >>
    /\ projRes = NoProjects
    /\ libRes = NoLibraries
    /\ config = FullConfig
    /\ pc = "threat"
    /\ InitLocals

NextThreat == ThreatPageOk \/ ThreatPageFail

\* the start of the top-level run() under every configuration, up to the
\* end of the threat fetch
StartFeeds == {EmptyFeed, << FeedPage(<<T1>>, Absent, FALSE) >>}

InitStart ==
    /\ feed \in StartFeeds
    /\ wsPages = << <<>> >>
    /\ projRes = NoProjects
    /\ libRes = NoLibraries
    /\ config \in Configs
    /\ pc = "validate"
    /\ InitLocals

NextStart ==
    \/ ValidateInputs
    \/ ThreatPageOk
    \/ ThreatPageFail

SpecStart == InitStart /\ [][NextStart]_vars

SpecThreat == InitThreat /\ [][NextThreat]_vars

\* fetchProjectsForWorkspace(w1) and fetchLibrariesForProject(w1, pa) alone,
\* against every listing: the run has fetched an empty feed and workspace w1
\* (and project pa) and stands at the call
InitPage ==
    /\ feed = EmptyFeed
    /\ wsPages = << <<W1>> >>
    /\ config = FullConfig
    /\ cursor = Absent
    /\ allPackages = <<>>
    /\ threatPackages = <<>>
    /\ workspaces = <<W1>>
    /\ wsIdx = 1
    /\ page = 0
    /\ projIdx = 1
    /\ libsAcc = <<>>
    /\ libraries = <<>>
    /\ allLibraries = <<>>
    /\ matches = <<>>
    /\ summary = <<>>
    /\ maliciousPackagesTable = <<>>
    /\ files = <<>>
    /\ outputs = <<>>
    /\ thrown = "none"
    /\ exitCode = NotExited
    /\ \/ /\ projRes \in {[NoProjects EXCEPT !["w1"] = r] : r \in Resources({PA, PB})}
          /\ libRes = NoLibraries
          /\ pc = "projects"
          /\ allProjects = <<>>
          /\ projects = <<>>
          /\ requests = << Request("threat", "", "", Absent, TRUE),
                           Request("workspaces", "", "", Absent, TRUE) >>
       \/ /\ projRes = [NoProjects EXCEPT !["w1"] = Listing(<< <<PA>> >>)]
          /\ libRes \in {[NoLibraries EXCEPT !["pa"] = r] : r \in Resources({L1, L2})}
          /\ pc = "libraries"
          /\ allProjects = <<PA>>
          /\ projects = <<PA>>
          /\ requests = << Request("threat", "", "", Absent, TRUE),
                           Request("workspaces", "", "", Absent, TRUE),
                           Request("projects", "w1", "", 0, TRUE) >>

NextPage ==
    \/ ProjectsPageOk
    \/ ProjectsPageFail
    \/ LibrariesPageOk
    \/ LibrariesPageFail

SpecPage == InitPage /\ [][NextPage]_vars

\* findVulnerableMatches alone, on every pair of short lists
MatchThreats == {ThreatPkg(n, v, e, CreatedJan) : n \in Names, v \in Versions, e \in Ecosystems}
MatchTriples ==
    {Triple(Library("l", n, v), p, W1) : n \in Names, v \in Versions, p \in {PA, PB}}

InitMatch ==
    /\ feed = EmptyFeed
    /\ wsPages = << <<>> >>
    /\ projRes = NoProjects
    /\ libRes = NoLibraries
    /\ config = FullConfig
    /\ pc = "match"
    /\ requests = <<>>
    /\ cursor = Absent
    /\ allPackages = <<>>
    /\ threatPackages \in SeqsUpTo(MatchThreats, MaxThreats)
    /\ workspaces = <<>>
    /\ wsIdx = 1
    /\ page = 0
    /\ allProjects = <<>>
    /\ projects = <<>>
    /\ projIdx = 1
    /\ libsAcc = <<>>
    /\ libraries = <<>>
    /\ allLibraries \in SeqsUpTo(MatchTriples, MaxInventory)
    /\ matches = <<>>
    /\ summary = <<>>
    /\ maliciousPackagesTable = <<>>
    /\ files = <<>>
    /\ outputs = <<>>
    /\ thrown = "none"
    /\ exitCode = NotExited

NextMatch == FindMatches

SpecMatch == InitMatch /\ [][NextMatch]_vars

\* generateSummary alone, on the matches of short threat lists and
\* inventories taken from entries that match one another
SummaryThreats ==
    {T1, T2, ThreatPkg("left-pad", "1.0", "pypi", CreatedJan)}
SummaryTriples ==
    {Triple(L1, PA, W1), Triple(L1, PB, W1),
     Triple(Library("l3", "left-pad", "1.0.0"), PC, W2)}

InitSummary ==
    /\ feed = EmptyFeed
    /\ wsPages = << <<>> >>
    /\ projRes = NoProjects
    /\ libRes = NoLibraries
    /\ config = FullConfig
    /\ pc = "render"
    /\ requests = <<>>
    /\ cursor = Absent
    /\ allPackages = <<>>
    /\ threatPackages \in SeqsUpTo(SummaryThreats, MaxThreats)
    /\ workspaces = <<>>
    /\ wsIdx = 1
    /\ page = 0
    /\ allProjects = <<>>
    /\ projects = <<>>
    /\ projIdx = 1
    /\ libsAcc = <<>>
    /\ libraries = <<>>
    /\ allLibraries \in SeqsUpTo(SummaryTriples, MaxInventory)
    /\ matches = findVulnerableMatches(threatPackages, allLibraries)
    /\ summary = <<>>
    /\ maliciousPackagesTable = <<>>
    /\ files = <<>>
    /\ outputs = <<>>
    /\ thrown = "none"
    /\ exitCode = NotExited

NextSummary == RenderSummary

SpecSummary == InitSummary /\ [][NextSummary]_vars

\* the two renderers one after the other, as run calls them
NextRender ==
    \/ RenderSummary
    \/ RenderTable

SpecRender == InitSummary /\ [][NextRender]_vars

\* generateMaliciousPackagesTable alone, on every short threat list over
\* entries with equal and different dates, empty fields, values wider than
\* the column headers, and a date that cannot be parsed
TablePkgs ==
    {ThreatPkg("left-pad", "1.0", "npm", CreatedJan),
     ThreatPkg("Left-Pad", "1.0", "pypi", CreatedJanOffset),
     ThreatPkg("", "", "", CreatedMar),
     ThreatPkg("a-very-long-package-name", "10.20.30-beta.1+build",
               "github-actions", CreatedFar),
     ThreatPkg("left-pad", "1.0.0", "npm", CreatedBad),
     ThreatPkg("left-pad", "1.0", "npm", CreatedMar)}

InitTable ==
    /\ feed = EmptyFeed
    /\ wsPages = << <<>> >>
    /\ projRes = NoProjects
    /\ libRes = NoLibraries
    /\ config = FullConfig
    /\ pc = "renderTable"
    /\ requests = <<>>
    /\ cursor = Absent
    /\ allPackages = <<>>
    /\ threatPackages \in SeqsUpTo(TablePkgs, MaxRows)
    /\ workspaces = <<>>
    /\ wsIdx = 1
    /\ page = 0
    /\ allProjects = <<>>
    /\ projects = <<>>
    /\ projIdx = 1
    /\ libsAcc = <<>>
    /\ libraries = <<>>
    /\ allLibraries = <<>>
    /\ matches = <<>>
    /\ summary \in {generateSummary(<<>>, Now(t)) : t \in 0..MaxTick}
    /\ maliciousPackagesTable = <<>>
    /\ files = <<>>
    /\ outputs = <<>>
    /\ thrown = "none"
    /\ exitCode = NotExited

NextTable == RenderTable

SpecTable == InitTable /\ [][NextTable]_vars

----------------------------------------------------------------------------
(* Vocabulary of the properties *)

Range(sq) == {sq[i] : i \in 1..Len(sq)}

\* the requests issued to one endpoint, in order
IsThreatReq(r)  == r.api = "threat"
IsProjectReq(r) == r.api = "projects"
IsLibraryReq(r) == r.api = "libraries"
ThreatReqs  == SelectSeq(requests, IsThreatReq)
ProjectReqs == SelectSeq(requests, IsProjectReq)
LibraryReqs == SelectSeq(requests, IsLibraryReq)

Failed(reqs)  == \E i \in 1..Len(reqs) : ~reqs[i].ok
ArgsOf(reqs)  == [i \in 1..Len(reqs) |-> reqs[i].arg]
LastReq       == requests[Len(requests)]

\* the number of pages a feed serves: the first page without a truthy cursor
ServedPages(f) ==
    CHOOSE k \in 1..Len(f) :
        ~Truthy(f[k].cursor) /\ \A i \in 1..(k - 1) : Truthy(f[i].cursor)

\* the packages of pages 1..k of a feed, in page order
FeedPackages(f, k) == Flatten([i \in 1..k |-> f[i].packages])

\* the items the server hands out on pages 0..n-1 of a listing, in page order
ServedItems(res, n) ==
    Flatten([i \in 1..n |->
        IF res.embedded THEN PageResponse(res, i - 1).items ELSE <<>>])

\* the index pairs (threat i, triple j) with equal name and equal version
MatchPairs(ts, inv) ==
    {pr \in (1..Len(ts)) \X (1..Len(inv)) :
        /\ ts[pr[1]].name = inv[pr[2]].library.name
        /\ ts[pr[1]].version = inv[pr[2]].library.version}

PairMatch(ts, inv, pr) ==
    [threatPackage |-> ts[pr[1]], library |-> inv[pr[2]].library,
     project |-> inv[pr[2]].project, workspace |-> inv[pr[2]].workspace]

----------------------------------------------------------------------------
(* Properties of fetchAllThreatPackages *)

\* C1: when the feed serves k pages (pages 1..k-1 carry a truthy cursor,
\* page k carries none) and no request fails, fetchAllThreatPackages returns
\* the packages of the k pages concatenated in page order and has issued
\* exactly k requests.
C1_CursorCompleteness ==
    LET k == ServedPages(feed)
    IN  (pc = "workspaces" /\ feed[k].cursor = Absent /\ ~Failed(ThreatReqs))
            => /\ threatPackages = FeedPackages(feed, k)
               /\ Len(ThreatReqs) = k
               /\ Len(requests) = k

C1_Witness ==
    /\ pc = "workspaces"
    /\ ServedPages(feed) = 3
    /\ feed[3].cursor = Absent
    /\ threatPackages = <<T1, T2, T1>>

\* C5: when a threat-feed request fails (the first or a later one), no list
\* is returned to run (threatPackages is never assigned, although allPackages
\* may hold the pages fetched so far), the error reaches the caller, and the
\* failed request is the last request: no retry, no later page.
C5_State ==
    Failed(ThreatReqs)
        => /\ threatPackages = <<>>
           /\ thrown = "threat-feed"
           /\ pc = "done"
           /\ ~LastReq.ok
           /\ \A i \in 1..(Len(requests) - 1) : requests[i].ok

C5_CursorFailureAllOrNothing ==
    /\ []C5_State
    /\ [][~Failed(ThreatReqs)]_vars

C5_Witness ==
    /\ Failed(ThreatReqs)
    /\ Len(ThreatReqs) = 3
    /\ allPackages = <<T1, T2>>
    /\ threatPackages = <<>>

----------------------------------------------------------------------------
(* Properties of fetchProjectsForWorkspace and fetchLibrariesForProject,   *)
(* stated of the call fetchProjectsForWorkspace(w1), which has returned    *)
(* when pc = "forProject", and of fetchLibrariesForProject(w1, pa), which  *)
(* has returned when pc = "pushLibraries"                                  *)

ProjectsReturned  == pc = "forProject"
LibrariesReturned == pc = "pushLibraries"

\* the listing reports totalPages = n on every response and echoes the
\* requested page number
WellPaged(res, n) == res.totalPages = n /\ n >= 1 /\ res.number = Echo

\* the fetch that returned `result` after the requests `reqs` to listing
\* `res` made n requests, pages 0..n-1 in order, and returned their items
Complete(res, reqs, result, n) ==
    /\ ArgsOf(reqs) = [i \in 1..n |-> i - 1]
    /\ result = ServedItems(res, n)

\* C2: against a listing that reports totalPages = n >= 1 on every response
\* and echoes the requested page number, and with no failed request,
\* fetchProjectsForWorkspace and fetchLibrariesForProject each issue exactly
\* n requests, pages 0, 1, ..., n-1 in that order, and return the
\* concatenation of the items of the n pages in page order.
C2_PageNumberCompleteness ==
    /\ (ProjectsReturned /\ ~Failed(ProjectReqs)
            /\ WellPaged(projRes["w1"], projRes["w1"].totalPages))
          => Complete(projRes["w1"], ProjectReqs, projects,
                      projRes["w1"].totalPages)
    /\ (LibrariesReturned /\ ~Failed(LibraryReqs)
            /\ WellPaged(libRes["pa"], libRes["pa"].totalPages))
          => Complete(libRes["pa"], LibraryReqs, libraries,
                      libRes["pa"].totalPages)

C2_Witness ==
    /\ LibrariesReturned
    /\ ~Failed(LibraryReqs)
    /\ WellPaged(libRes["pa"], 3)
    /\ Len(LibraryReqs) = 3
    /\ libraries = <<L1, L2, L1>>

\* the fetch whose first request (page 0) failed returned the empty list
\* after that single request, and nothing was thrown
EmptyAfterFirst(reqs, result) ==
    /\ Len(reqs) = 1
    /\ result = <<>>
    /\ thrown = "none"
    /\ exitCode = NotExited

\* C7: when the request for page 0 of a project listing or a library listing
\* fails, the fetcher returns the empty list, throws nothing, and that
\* request is the only one it issued for the listing.
C7_FirstPageFailureEmpty ==
    /\ (\E i \in 1..Len(ProjectReqs) :
            ~ProjectReqs[i].ok /\ ProjectReqs[i].arg = 0)
          => ProjectsReturned /\ EmptyAfterFirst(ProjectReqs, projects)
    /\ (\E i \in 1..Len(LibraryReqs) :
            ~LibraryReqs[i].ok /\ LibraryReqs[i].arg = 0)
          => LibrariesReturned /\ EmptyAfterFirst(LibraryReqs, libraries)

C7_Witness ==
    /\ Len(ProjectReqs) = 1
    /\ ~ProjectReqs[1].ok
    /\ ProjectsReturned
    /\ projects = <<>>
    /\ projRes["w1"].pages = << <<PA>>, <<PB>> >>

\* the fetch whose request for page j >= 1 failed had requested pages 0..j,
\* the first j successfully, and returned the items of pages 0..j-1
PartialAfterLater(res, reqs, result) ==
    LET j == reqs[Len(reqs)].arg
    IN  /\ ArgsOf(reqs) = [i \in 1..(j + 1) |-> i - 1]
        /\ \A i \in 1..j : reqs[i].ok
        /\ result = ServedItems(res, j)
        /\ thrown = "none"
        /\ exitCode = NotExited

----------------------------------------------------------------------------
(* Properties of findVulnerableMatches *)

\* how often m occurs in the list ms
Occurrences(ms, m) == Cardinality({k \in 1..Len(ms) : ms[k] = m})

\* C3: findVulnerableMatches returns one match for every index pair (threat
\* i, triple j) with equal name and equal version and nothing else: the
\* number of matches is the number of such pairs, and every match record
\* occurs as often as there are pairs that produce it, so repeated threat
\* entries and repeated triples count separately.
C3_MatchMultiplicity ==
    pc = "render" =>
        LET pairs == MatchPairs(threatPackages, allLibraries)
            made  == {PairMatch(threatPackages, allLibraries, pr) : pr \in pairs}
        IN  /\ Len(matches) = Cardinality(pairs)
            /\ Range(matches) = made
            /\ \A m \in made :
                  Occurrences(matches, m) =
                      Cardinality({pr \in pairs :
                          PairMatch(threatPackages, allLibraries, pr) = m})

\* the example of the specification: two threat entries of one name, the
\* library of the first used by two projects; and a repeated threat entry
C3_Witness ==
    /\ pc = "render"
    /\ Len(threatPackages) = 2
    /\ threatPackages[1].name = threatPackages[2].name
    /\ threatPackages[1].version # threatPackages[2].version
    /\ Len(allLibraries) = 2
    /\ allLibraries[1].library = allLibraries[2].library
    /\ allLibraries[1].project # allLibraries[2].project
    /\ IsMatch(threatPackages[1], allLibraries[1].library)
    /\ Len(matches) = 2

----------------------------------------------------------------------------
(* Properties of ThreatFeedChecker.run *)

InventoryReqs == SelectSeq(requests, LAMBDA r : r.api \in {"workspaces", "projects", "libraries"})

\* the run came to its end through the exit decision, not through the catch
ExitedNormally == pc = "done" /\ thrown = "none"

\* C4: a run that ends without a fatal error exits with code 0 if and only
\* if no threat entry equals an inventory library in name and version, and
\* with code 1 whenever there is such a match.
C4_ExitStatus ==
    ExitedNormally =>
        LET n == Cardinality(MatchPairs(threatPackages, allLibraries))
        IN  /\ n = Len(matches)
            /\ exitCode = 0 <=> n = 0
            /\ n > 0 => exitCode = 1

C4_Witness ==
    /\ ExitedNormally
    /\ Len(matches) > 0
    /\ exitCode = 1
    /\ ~Failed(requests)

C4_WitnessClean ==
    /\ ExitedNormally
    /\ Len(matches) = 0
    /\ exitCode = 0
    /\ allLibraries # <<>>
    /\ threatPackages # <<>>

\* C6: once a threat-feed request has failed the run is over with exit code
\* 1: no inventory request was or will be issued, no match was computed and
\* no report file is written.
C6_State ==
    Failed(ThreatReqs)
        => /\ pc = "done"
           /\ exitCode = 1
           /\ InventoryReqs = <<>>
           /\ matches = <<>>
           /\ files = <<>>
           /\ outputs = <<>>

C6_ThreatFailureFatal ==
    /\ []C6_State
    /\ [][~Failed(ThreatReqs)]_vars

C6_Witness ==
    /\ Failed(ThreatReqs)
    /\ Len(ThreatReqs) = 2
    /\ allPackages = <<T1>>
    /\ exitCode = 1
    /\ Len(wsPages[1]) = 2

\* the page requests for one listing (projects of a workspace: proj = "")
ReqsFor(api, ws, proj) ==
    SelectSeq(requests, LAMBDA r : r.api = api /\ r.ws = ws /\ r.proj = proj)

OkCount(reqs) == Cardinality({i \in 1..Len(reqs) : reqs[i].ok})

\* fetchAllLibraries has returned
InventoryDone ==
    \/ pc \in {"match", "render", "renderTable", "writeSummary", "writeTable",
              "setOutputs", "exit"}
    \/ pc = "done" /\ thrown \in {"none", "render"}

InventoryFailure == Failed(ProjectReqs) \/ Failed(LibraryReqs)

\* the projects of workspace w the run got hold of: those on the pages of
\* its listing that were fetched (every page when no request for it failed)
ListedProjects(w) ==
    Range(ServedItems(projRes[w.id], OkCount(ReqsFor("projects", w.id, ""))))

ListedLibraries(w, p) ==
    Range(ServedItems(libRes[p.id], OkCount(ReqsFor("libraries", w.id, p.id))))

\* C9: a failed project-listing or library-listing request never ends the
\* run; when fetchAllLibraries has returned, the project listing of every
\* workspace and the library listing of every project obtained have been
\* requested, and the inventory holds the triple of every library on every
\* page that was fetched, in particular every triple of a workspace and of a
\* project none of whose requests failed; a run that then exits normally
\* takes its exit code from the matches over that inventory.
C9_InventoryFailuresIsolated ==
    /\ InventoryFailure => thrown \in {"none", "render"}
    /\ InventoryDone =>
          \A k \in 1..Len(workspaces) :
              LET w == workspaces[k]
              IN  /\ ReqsFor("projects", w.id, "") # <<>>
                  /\ \A p \in ListedProjects(w) :
                        /\ ReqsFor("libraries", w.id, p.id) # <<>>
                        /\ \A l \in ListedLibraries(w, p) :
                              Triple(l, p, w) \in Range(allLibraries)
    /\ (InventoryFailure /\ ExitedNormally) =>
          exitCode = IF MatchPairs(threatPackages, allLibraries) = {} THEN 0 ELSE 1

\* the project listing of w1 failed on page 0, workspace w2 was still
\* fetched in full and its library decides the exit code
C9_Witness ==
    /\ ExitedNormally
    /\ Len(ReqsFor("projects", "w1", "")) = 1
    /\ ~ReqsFor("projects", "w1", "")[1].ok
    /\ ~Failed(ReqsFor("projects", "w2", ""))
    /\ ~Failed(ReqsFor("libraries", "w2", "pc"))
    /\ allLibraries = << Triple(L1, PC, W2) >>
    /\ threatPackages = <<T1>>
    /\ exitCode = 1

\* C10 (as claimed): once the workspace listing has been fetched, every page
\* 0..totalPages-1 of it has been requested and `workspaces` holds the
\* workspaces of all pages.
WorkspaceReqs == SelectSeq(requests, LAMBDA r : r.api = "workspaces")

C10_WorkspacesDrained ==
    (WorkspaceReqs # <<>> /\ ~Failed(WorkspaceReqs))
        => /\ Len(WorkspaceReqs) = WorkspacesResponse(wsPages).totalPages
           /\ workspaces = Flatten(wsPages)

----------------------------------------------------------------------------
(* C11: a failed workspace listing request is fatal.  Once the request to  *)
(* the workspace listing has failed, the run has ended with a non-zero     *)
(* exit status through the catch of run, it never goes on to an empty      *)
(* inventory and exit 0, and no project or library request is ever issued. *)

C11_State ==
    Failed(WorkspaceReqs) =>
        /\ pc = "done"
        /\ thrown = "workspaces"
        /\ exitCode = 1
        /\ ProjectReqs = <<>>
        /\ LibraryReqs = <<>>
        /\ workspaces = <<>>
        /\ allLibraries = <<>>

C11_WorkspaceFailureFatal ==
    /\ []C11_State
    /\ [][Failed(WorkspaceReqs) => UNCHANGED vars]_vars

\* the workspace listing failed after a threat feed without entries was
\* fetched: an empty inventory would have made this run exit 0
C11_Witness ==
    /\ Failed(WorkspaceReqs)
    /\ ~Failed(ThreatReqs)
    /\ threatPackages = <<>>
    /\ exitCode = 1
    /\ pc = "done"

----------------------------------------------------------------------------
(* C12: a falsy cursor ends the threat fetch.  Let page k be the first     *)
(* page of the feed whose cursor is 0, "" or absent.  No request is issued *)
(* after page k was fetched, the fetch has then returned the packages of   *)
(* pages 1..k (page k's included) in order, and before page k was fetched  *)
(* it has not returned; the three falsy forms are not told apart.          *)

FalsyCursors == {0, EmptyStr, Absent}

FirstFalsy(f) ==
    CHOOSE k \in 1..Len(f) :
        /\ f[k].cursor \in FalsyCursors
        /\ \A i \in 1..(k - 1) : f[i].cursor \notin FalsyCursors

C12_FalsyCursorTermination ==
    LET k == FirstFalsy(feed)
    IN  /\ Len(requests) <= k
        /\ (Len(requests) = k /\ ~Failed(ThreatReqs))
               => /\ pc = "workspaces"
                  /\ threatPackages = FeedPackages(feed, k)
        /\ pc = "threat" => Len(requests) < k
        /\ pc = "workspaces" => Len(requests) = k

\* a three-page feed whose first page carries the cursor 0 and a package:
\* one request, that page's package returned
C12_Witness ==
    /\ Len(feed) = 3
    /\ feed[1].cursor = 0
    /\ feed[1].packages = <<T2>>
    /\ pc = "workspaces"
    /\ Len(requests) = 1
    /\ threatPackages = <<T2>>

\* the same with the empty string as the cursor of the second page
C12_WitnessEmptyString ==
    /\ Len(feed) = 3
    /\ feed[2].cursor = EmptyStr
    /\ pc = "workspaces"
    /\ Len(requests) = 2
    /\ threatPackages = <<T1, T2>>

----------------------------------------------------------------------------
(* Properties of fetchAllLibraries *)

\* the projects fetched for workspace w and the libraries fetched for
\* project p of w, in the order of the pages that were fetched
FetchedProjects(w) ==
    ServedItems(projRes[w.id], OkCount(ReqsFor("projects", w.id, "")))

FetchedLibraries(w, p) ==
    ServedItems(libRes[p.id], OkCount(ReqsFor("libraries", w.id, p.id)))

\* the triples of one project and of one workspace, in fetch order
ProjectTriples(w, p) ==
    LET ls == FetchedLibraries(w, p)
    IN  [i \in 1..Len(ls) |-> Triple(ls[i], p, w)]

WorkspaceTriples(w) ==
    LET ps == FetchedProjects(w)
    IN  Flatten([j \in 1..Len(ps) |-> ProjectTriples(w, ps[j])])

\* C13: when fetchAllLibraries has returned, the inventory is the sequence
\* of triples in lexicographic order of (position of the workspace, position
\* of the project within the workspace, position of the library within the
\* project); each triple pairs a library with the project and the workspace
\* it was fetched under, and each fetched library gives exactly one triple.
C13_FlatteningOrder ==
    InventoryDone =>
        allLibraries =
            Flatten([k \in 1..Len(workspaces) |-> WorkspaceTriples(workspaces[k])])

\* two workspaces, two projects in the first, two libraries in its first
\* project, every request answered
C13_Witness ==
    /\ InventoryDone
    /\ ~InventoryFailure
    /\ workspaces = <<W1, W2>>
    /\ allLibraries = << Triple(L1, PA, W1), Triple(L2, PA, W1),
                         Triple(L2, PB, W1), Triple(L1, PC, W2) >>

----------------------------------------------------------------------------
(* Order and exactness of findVulnerableMatches *)

\* the pair q comes before the pair pr: by threat position, then by
\* inventory position
PairBefore(q, pr) == q[1] < pr[1] \/ (q[1] = pr[1] /\ q[2] < pr[2])

\* the position in the result of the match of pair pr: one more than the
\* number of matching pairs before it
PairRank(pairs, pr) == 1 + Cardinality({q \in pairs : PairBefore(q, pr)})

\* C14: the matches are ordered by threat-feed position first and inventory
\* position second: the match of the pair (i, j) stands before the match of
\* (i', j') exactly when i < i', or i = i' and j < j'.
C14_MatchOrdering ==
    pc = "render" =>
        LET pairs == MatchPairs(threatPackages, allLibraries)
        IN  /\ Len(matches) = Cardinality(pairs)
            /\ \A pr \in pairs :
                  matches[PairRank(pairs, pr)] =
                      PairMatch(threatPackages, allLibraries, pr)

\* two different threat entries that both match two different triples: four
\* matches, the two of the first threat entry first
C14_Witness ==
    /\ pc = "render"
    /\ Len(matches) = 4
    /\ threatPackages[1] # threatPackages[2]
    /\ allLibraries[1] # allLibraries[2]
    /\ matches[2] = VulnerableMatch(threatPackages[1], allLibraries[2])
    /\ matches[3] = VulnerableMatch(threatPackages[2], allLibraries[1])

\* C15: matching is exact and case-sensitive: every match record joins a
\* threat entry and a library whose names are the same string and whose
\* versions are the same string; a pair that differs in letter case
\* ("Left-Pad", "left-pad") or in version spelling ("1.0", "1.0.0") gives no
\* match.
C15_ExactCaseSensitive ==
    pc = "render" =>
        /\ \A k \in 1..Len(matches) :
              /\ matches[k].threatPackage.name = matches[k].library.name
              /\ matches[k].threatPackage.version = matches[k].library.version
        /\ \A i \in 1..Len(threatPackages), j \in 1..Len(allLibraries) :
              (\/ threatPackages[i].name # allLibraries[j].library.name
               \/ threatPackages[i].version # allLibraries[j].library.version)
                  => PairMatch(threatPackages, allLibraries, <<i, j>>)
                         \notin Range(matches)

\* "Left-Pad" 1.0 and "left-pad" 1.0.0 in the feed, "left-pad" 1.0 in the
\* inventory: no match
C15_Witness ==
    /\ pc = "render"
    /\ Len(threatPackages) = 2
    /\ threatPackages[1].name = "Left-Pad" /\ threatPackages[1].version = "1.0"
    /\ threatPackages[2].name = "left-pad" /\ threatPackages[2].version = "1.0.0"
    /\ Len(allLibraries) = 1
    /\ allLibraries[1].library.name = "left-pad"
    /\ allLibraries[1].library.version = "1.0"
    /\ matches = <<>>

----------------------------------------------------------------------------
(* Order of the reports, the outputs and the exit *)

FileNames == [i \in 1..Len(files) |-> files[i].name]

\* C16 (as claimed): in every run in which both fetches completed, when the
\* process has exited both report files have been written, summary.txt
\* first, and the match count and the two file paths have been set as
\* outputs, whether the run exits with 1 or with 0.
C16_ReportsBeforeExit ==
    (exitCode # NotExited /\ InventoryDone)
        => /\ FileNames = <<"summary.txt", "new-malicious-packages.txt">>
           /\ outputs = << <<"vulnerable_packages_count", Len(matches)>>,
                           <<"summary_file", "summary.txt">>,
                           <<"malicious_packages_file", "new-malicious-packages.txt">> >>

----------------------------------------------------------------------------
(* Properties of generateMaliciousPackagesTable.  The rendered table has   *)
(* six lines of heading, the header row (line 7), the separator (line 8),  *)
(* one row per entry (from line 9) and three closing lines.                *)

TableRendered == maliciousPackagesTable # <<>>

\* the data rows of the rendered table of n entries
DataRows(n) == SubSeq(maliciousPackagesTable, 9, 8 + n)

RECURSIVE Fill(_, _)
Fill(ch, n) == IF n <= 0 THEN "" ELSE ch \o Fill(ch, n - 1)

SetMax(S) == CHOOSE m \in S : \A x \in S : x <= m

\* the text shown for an entry in column c: its date, ecosystem, name and
\* version, "Unknown" standing for an empty one of the last three
CellText(pkg, c) ==
    LET shown(s) == IF s = "" THEN "Unknown" ELSE s
    IN  CASE c = 1 -> ToISODate(GetTime(pkg.created))
          [] c = 2 -> shown(pkg.ecosystem)
          [] c = 3 -> shown(pkg.name)
          [] c = 4 -> shown(pkg.version)

HeaderLengths == << 10, 9, 12, 15 >>

\* the width of column c: the longest of its header and its values
ColumnWidth(pkgs, c) ==
    SetMax({HeaderLengths[c]} \cup {Len(CellText(pkgs[i], c)) : i \in 1..Len(pkgs)})

\* a text followed by as many spaces as it lacks to the width w
PaddedCell(text, w) == text \o Fill(" ", w - Len(text))

\* a line of four cells, each padded to the width of its column
PaddedLine(texts, pkgs) ==
    "| " \o PaddedCell(texts[1], ColumnWidth(pkgs, 1))
         \o " | " \o PaddedCell(texts[2], ColumnWidth(pkgs, 2))
         \o " | " \o PaddedCell(texts[3], ColumnWidth(pkgs, 3))
         \o " | " \o PaddedCell(texts[4], ColumnWidth(pkgs, 4)) \o " |"

RowOf(pkg, pkgs) == PaddedLine([c \in 1..4 |-> CellText(pkg, c)], pkgs)

Orderings(n) ==
    {p \in [1..n -> 1..n] : \A i, j \in 1..n : p[i] = p[j] => i = j}

\* C17: the data rows of the table are the feed entries, one row each, in
\* non-increasing order of their created instants, and entries of the same
\* instant stand in their feed order (the entries of a rendered table all
\* have parsable dates).
C17_TableSort ==
    (TableRendered /\ threatPackages # <<>>) =>
        LET n    == Len(threatPackages)
            time == [i \in 1..n |-> GetTime(threatPackages[i].created)]
        IN  /\ Len(maliciousPackagesTable) = n + 11
            /\ \E p \in Orderings(n) :
                  /\ \A k \in 1..n :
                        DataRows(n)[k] = RowOf(threatPackages[p[k]], threatPackages)
                  /\ \A k, l \in 1..n :
                        k < l => \/ time[p[k]] > time[p[l]]
                                 \/ time[p[k]] = time[p[l]] /\ p[k] < p[l]

\* three entries: the first and the third of one instant, the second newer;
\* the second is shown first and the other two keep their order
C17_Witness ==
    /\ TableRendered
    /\ Len(threatPackages) = 3
    /\ threatPackages[1] # threatPackages[3]
    /\ GetTime(threatPackages[1].created) = GetTime(threatPackages[3].created)
    /\ GetTime(threatPackages[2].created) > GetTime(threatPackages[1].created)
    /\ DataRows(3) = << RowOf(threatPackages[2], threatPackages),
                        RowOf(threatPackages[1], threatPackages),
                        RowOf(threatPackages[3], threatPackages) >>
    /\ DataRows(3)[2] # DataRows(3)[3]

\* C18: each column is as wide as the longest of its header (10, 9, 12, 15
\* characters) and the values shown in it, "Unknown" standing for an empty
\* ecosystem, name or version; the header row and every data row consist of
\* the cells followed by spaces up to exactly that width, nothing cut off;
\* each segment of the separator has the width plus two dashes.
C18_ColumnAlignment ==
    (TableRendered /\ threatPackages # <<>>) =>
        LET n == Len(threatPackages)
            w == [c \in 1..4 |-> ColumnWidth(threatPackages, c)]
        IN  /\ \A c \in 1..4 : Len(Headers[c]) = HeaderLengths[c]
            /\ maliciousPackagesTable[7] = PaddedLine(Headers, threatPackages)
            /\ maliciousPackagesTable[8] =
                   "|" \o Fill("-", w[1] + 2) \o "|" \o Fill("-", w[2] + 2) \o "|"
                       \o Fill("-", w[3] + 2) \o "|" \o Fill("-", w[4] + 2) \o "|"
            /\ \A k \in 1..n : \E i \in 1..n :
                   DataRows(n)[k] = RowOf(threatPackages[i], threatPackages)
            /\ \A i \in 1..n : \E k \in 1..n :
                   DataRows(n)[k] = RowOf(threatPackages[i], threatPackages)
            /\ \A k \in 7..(8 + n) :
                   Len(maliciousPackagesTable[k]) = w[1] + w[2] + w[3] + w[4] + 13
            /\ \A i \in 1..n, c \in 1..4 :
                   Len(PaddedCell(CellText(threatPackages[i], c), w[c])) = w[c]

\* an entry without ecosystem, name and version and an entry whose four
\* values are all longer than the headers: columns of 13, 14, 24 and 21
C18_Witness ==
    /\ TableRendered
    /\ Len(threatPackages) = 2
    /\ threatPackages[1].name = ""
    /\ threatPackages[2].name = "a-very-long-package-name"
    /\ maliciousPackagesTable[8] =
           "|" \o Fill("-", 15) \o "|" \o Fill("-", 16) \o "|"
               \o Fill("-", 26) \o "|" \o Fill("-", 23) \o "|"
    /\ maliciousPackagesTable[9] =
           "| +010000-01-01 | github-actions | a-very-long-package-name | 10.20.30-beta.1+build |"
    /\ maliciousPackagesTable[10] =
           "| 2024-03-01    | Unknown        | Unknown                  | Unknown               |"

----------------------------------------------------------------------------
(* Properties of generateSummary.  The summary has six lines of heading;   *)
(* with matches there follow three lines of introduction, ten lines per    *)
(* match (from line 10) and six closing lines.                             *)

SummaryRendered == summary # <<>>

ClockTexts == {"Generated: " \o Now(t) : t \in 0..MaxTick}

\* C19: the summary of an empty match list gives the count 0 and the fixed
\* clean message and nothing else: no numbered block of a match and no
\* action-required footer.
C19_ZeroMatchSummary ==
    (SummaryRendered /\ matches = <<>>) =>
        /\ Len(summary) = 8
        /\ SubSeq(summary, 1, 3) =
               << "THREAT FEED SECURITY ALERT SUMMARY",
                  "=====================================",
                  "" >>
        /\ summary[4] \in ClockTexts
        /\ SubSeq(summary, 5, 8) =
               << "Total vulnerable packages found: 0",
                  "",
                  "[check] No vulnerable packages found in your projects.",
                  "All packages in your Veracode SCA projects are clean." >>
        /\ \A i \in 1..Len(summary) :
               summary[i] \notin {"[warning]  ACTION REQUIRED:",
                                  "1. Review the above packages immediately",
                                  "[siren] IMMEDIATE ATTENTION REQUIRED!"}

\* two threat entries and two libraries none of which match
C19_Witness ==
    /\ SummaryRendered
    /\ Len(threatPackages) = 2
    /\ Len(allLibraries) = 2
    /\ matches = <<>>
    /\ summary[5] = "Total vulnerable packages found: 0"

\* the first line of the block of match k
BlockStart(k) == 10 * k

----------------------------------------------------------------------------
(* The table and the raw feed *)

\* C21: the table is over the fetched threat list as it is: the count in
\* its heading is the length of the list and there is exactly one data row
\* per entry, so that entries of the same name and version have a row each
\* and entries that match no library are listed all the same; an empty list
\* gives the count 0 and no row.
C21_TableOverRawFeed ==
    TableRendered =>
        LET n    == Len(threatPackages)
            rows == DataRows(n)
        IN  /\ maliciousPackagesTable[5] =
                   "Total packages in threat feed: " \o ToString(n)
            /\ Len(maliciousPackagesTable) = IF n = 0 THEN 7 ELSE n + 11
            /\ n > 0 =>
                  /\ Len(rows) = n
                  /\ \A i \in 1..n :
                        LET r == RowOf(threatPackages[i], threatPackages)
                        IN  Cardinality({k \in 1..n : rows[k] = r}) =
                            Cardinality({j \in 1..n :
                                RowOf(threatPackages[j], threatPackages) = r})

\* three entries of the name left-pad and the version 1.0, two of them the
\* same entry twice, none of them in the (empty) inventory: three rows
C21_Witness ==
    /\ TableRendered
    /\ Len(threatPackages) = 3
    /\ \A i \in 1..3 : /\ threatPackages[i].name = "left-pad"
                       /\ threatPackages[i].version = "1.0"
    /\ threatPackages[1] = threatPackages[2]
    /\ threatPackages[3] # threatPackages[1]
    /\ matches = <<>>
    /\ maliciousPackagesTable[5] = "Total packages in threat feed: 3"
    /\ Len(DataRows(3)) = 3
    /\ DataRows(3)[2] = DataRows(3)[3]

----------------------------------------------------------------------------
(* Determinism of the renderers *)

\* a text with its fourth line, the generation timestamp, blanked
WithoutStamp(text) == [text EXCEPT ![4] = "Generated: "]

----------------------------------------------------------------------------
(* Properties of the start of the run *)

\* credential k is given neither as action input nor as environment
\* variable (an empty value counts as not given)
CredentialAbsent(k) ==
    /\ config.input[InputNames[k]] = ""
    /\ \/ EnvVarNames[k] \notin DOMAIN config.env
       \/ config.env[EnvVarNames[k]] = ""

MissingConfiguration == \E k \in 1..3 : CredentialAbsent(k)

C23_State ==
    MissingConfiguration =>
        /\ requests = <<>>
        /\ pc \in {"validate", "done"}
        /\ pc = "done" => (exitCode = 1 /\ thrown = "validation")
        /\ files = <<>>

\* C23: when one of the three credentials is absent from both its action
\* input and its environment variable, no request is ever issued, to the
\* threat feed or to the inventory, and the one step the run takes ends it
\* with exit code 1.
C23_MissingConfigurationAborts ==
    /\ []C23_State
    /\ [][(MissingConfiguration /\ pc = "validate")
             => (pc' = "done" /\ exitCode' = 1 /\ requests' = <<>>)]_vars

\* the token comes from the environment, the API id from the input, the API
\* key is an empty input and an empty environment variable: exit 1
C23_Witness ==
    /\ pc = "done"
    /\ exitCode = 1
    /\ requests = <<>>
    /\ ~CredentialAbsent(1) /\ config.input["phylum_api_token"] = ""
    /\ ~CredentialAbsent(2) /\ "VERACODE_API_ID" \notin DOMAIN config.env
    /\ CredentialAbsent(3)
    /\ "VERACODE_API_KEY" \in DOMAIN config.env

----------------------------------------------------------------------------
(* The cursor protocol *)

\* the page the feed served in answer to the j-th threat request
PageServed(j) == FeedResponse(feed, ThreatReqs[j].arg)

\* C24: the first threat-feed request carries no cursor; every later request
\* carries the cursor of the page served just before it; after a successful
\* request the fetch goes on exactly when the cursor of the page served is
\* truthy (not 0, "" or absent), whatever the has_next flag of that page and
\* whether or not it holds packages.
C24_CursorProtocol ==
    LET n == Len(ThreatReqs)
    IN  /\ n >= 1 => ThreatReqs[1].arg = Absent
        /\ \A j \in 2..n :
              /\ ThreatReqs[j - 1].ok
              /\ ThreatReqs[j].arg = PageServed(j - 1).cursor
              /\ ThreatReqs[j].arg \notin FalsyCursors
        /\ (n >= 1 /\ ThreatReqs[n].ok) =>
              /\ pc = "threat" <=> PageServed(n).cursor \notin FalsyCursors
              /\ pc = "workspaces" <=> PageServed(n).cursor \in FalsyCursors
        /\ n = 0 => pc = "threat"

\* three requests: the first page is empty and says has_next = false but
\* carries a cursor, the last page says has_next = true and carries none
C24_Witness ==
    /\ pc = "workspaces"
    /\ Len(feed) = 3
    /\ feed[1].packages = <<>> /\ ~feed[1].has_next
    /\ feed[3].has_next /\ feed[3].cursor = Absent
    /\ ArgsOf(ThreatReqs) = <<Absent, 1, 2>>

----------------------------------------------------------------------------
(* Missing page data *)

\* the listing reports no totalPages, or totalPages = 0
NoPageCount(res) == res.totalPages \in {Absent, 0}

\* the fetch that returned `result` after the requests `reqs` to listing
\* res stopped at its first response and returned that response's items
StoppedAtFirst(res, reqs, result, returned) ==
    (NoPageCount(res) /\ reqs # <<>> /\ reqs[1].ok) =>
        /\ Len(reqs) = 1
        /\ returned
        /\ result = IF res.embedded /\ res.pages # <<>> THEN res.pages[1] ELSE <<>>

\* C25: when a successful project or library response carries no
\* totalPages, or totalPages = 0, that response is the last: no further
\* request is issued and the fetcher returns what it has, that response's
\* items included (none when the response has no embedded list).
C25_StopOnMissingPageData ==
    /\ pc \in {"projects", "forProject"} =>
          StoppedAtFirst(projRes["w1"], ProjectReqs, projects, ProjectsReturned)
    /\ pc \in {"libraries", "pushLibraries"} =>
          StoppedAtFirst(libRes["pa"], LibraryReqs, libraries, LibrariesReturned)

\* a project listing of two pages that reports no totalPages: one request,
\* the projects of the first page
C25_Witness ==
    /\ projRes["w1"].totalPages = Absent
    /\ projRes["w1"].embedded
    /\ projRes["w1"].pages = << <<PA>>, <<PB>> >>
    /\ ProjectsReturned
    /\ Len(ProjectReqs) = 1
    /\ projects = <<PA>>

\* a library listing that reports totalPages = 0 and no embedded list
C25_WitnessLibraries ==
    /\ libRes["pa"].totalPages = 0
    /\ ~libRes["pa"].embedded
    /\ libRes["pa"].pages = << <<L1>>, <<L2>> >>
    /\ LibrariesReturned
    /\ Len(LibraryReqs) = 1
    /\ libraries = <<>>

----------------------------------------------------------------------------
(* Dates that cannot be parsed *)

HasBadDate(pkgs) == \E i \in 1..Len(pkgs) : GetTime(pkgs[i].created) = BadDate

\* C26 (as claimed): for a threat list with an entry whose created value
\* cannot be parsed as a date, generateMaliciousPackagesTable still returns
\* a table with one row per entry and nothing is thrown, so that the run
\* goes on to write its reports.
C26_BadDatesTolerated ==
    (HasBadDate(threatPackages) /\ pc # "renderTable") =>
        /\ thrown = "none"
        /\ exitCode = NotExited
        /\ TableRendered
        /\ Len(maliciousPackagesTable) = Len(threatPackages) + 11
        /\ pc = "writeSummary"

----------------------------------------------------------------------------
(* Termination of the page-number fetches *)

\* the fetch that issued the requests `reqs` to listing res, all of them
\* answered, has issued no more requests than the listing has pages
AtMostTotalPages(res, reqs) ==
    (res.totalPages \in 1..MaxResPages /\ ~Failed(reqs))
        => Len(reqs) <= res.totalPages

\* C27 (as claimed): against a server that answers every request and
\* reports a fixed totalPages = n, whatever page number its responses carry
\* (echoed, missing or constant), fetchProjectsForWorkspace and
\* fetchLibrariesForProject issue at most n requests.
C27_PageFetchTerminates ==
    /\ AtMostTotalPages(projRes["w1"], ProjectReqs)
    /\ AtMostTotalPages(libRes["pa"], LibraryReqs)

----------------------------------------------------------------------------
(* Reports and the data behind them *)

\* C28: whenever a report file has been written, the threat feed was
\* fetched up to its last page with no failed request, the workspace
\* listing was answered, the traversal of the inventory has come to its end
\* and both texts were rendered before (the files hold these texts,
\* summary.txt first); a run that has ended in the catch has written no
\* file.
C28_NoReportFromIncompleteData ==
    /\ files # <<>> =>
          /\ ~Failed(ThreatReqs)
          /\ Len(ThreatReqs) = FirstFalsy(feed)
          /\ threatPackages = FeedPackages(feed, FirstFalsy(feed))
          /\ Len(WorkspaceReqs) = 1 /\ ~Failed(WorkspaceReqs)
          /\ InventoryDone
          /\ wsIdx = Len(workspaces) + 1
          /\ SummaryRendered
          /\ TableRendered
          /\ files[1] = [name |-> "summary.txt", data |-> summary]
          /\ Len(files) = 2 =>
                files[2] = [name |-> "new-malicious-packages.txt",
                            data |-> maliciousPackagesTable]
          /\ Len(files) <= 2
          /\ thrown = "none"
    /\ thrown # "none" => (files = <<>> /\ outputs = <<>>)

\* both files written after a feed of two pages and two workspaces, one of
\* whose listings failed: the traversal still came to its end
C28_Witness ==
    /\ Len(files) = 2
    /\ Len(ThreatReqs) = 2
    /\ workspaces = <<W1, W2>>
    /\ InventoryFailure
    /\ matches # <<>>
    /\ pc = "done"

----------------------------------------------------------------------------
(* Ecosystem and matching *)

\* how many matches name the threat entry t, how often t is in the feed
MatchesOf(t) == Cardinality({k \in 1..Len(matches) : matches[k].threatPackage = t})
TimesInFeed(t) == Cardinality({i \in 1..Len(threatPackages) : threatPackages[i] = t})

\* C29: the ecosystem takes no part in matching: a threat entry and a
\* library of the same name and version give a match whatever their
\* ecosystems, and two threat entries that differ in nothing that is
\* compared (same name, same version) give the same number of matches each.
C29_EcosystemIgnored ==
    pc = "render" =>
        /\ \A i \in 1..Len(threatPackages), j \in 1..Len(allLibraries) :
              (/\ threatPackages[i].name = allLibraries[j].library.name
               /\ threatPackages[i].version = allLibraries[j].library.version)
                  => PairMatch(threatPackages, allLibraries, <<i, j>>)
                         \in Range(matches)
        /\ \A i, l \in 1..Len(threatPackages) :
              LET t == threatPackages[i]
                  u == threatPackages[l]
              IN  (t.name = u.name /\ t.version = u.version)
                      => MatchesOf(t) * TimesInFeed(u) = MatchesOf(u) * TimesInFeed(t)

\* an npm entry and a pypi entry of the same name and version, one npm
\* library of that name and version: a match each
C29_Witness ==
    /\ pc = "render"
    /\ Len(threatPackages) = 2
    /\ threatPackages[1].ecosystem = "npm"
    /\ threatPackages[2] = [threatPackages[1] EXCEPT !.ecosystem = "pypi",
                                                     !.indicators = <<"malware">>]
    /\ Len(allLibraries) = 1
    /\ allLibraries[1].library.ecosystem = "npm"
    /\ Len(matches) = 2
    /\ matches[2].threatPackage.ecosystem # matches[2].library.ecosystem

====
